---- MODULE Spec2Model ----
(***************************************************************************)
(* Model of convert.py: the Mozc -> Rime dictionary converter.             *)
(*                                                                         *)
(* Strings are sequences of Unicode code points (naturals), so that the    *)
(* regular expressions of the source (character ranges, whitespace) and    *)
(* str.strip / str.split / str.lower are modelled by what they do.         *)
(* The two external libraries (jaconv.kana2alphabet and pykakasi) are the  *)
(* environment: what they return is drawn from a small set of strings.     *)
(***************************************************************************)
EXTENDS Integers, Sequences, FiniteSets, TLC

(* ---------------------------- bounds ----------------------------------- *)
\* number of file paths the glob can return
MaxFiles == 2
\* number of physical lines read over the whole run
MaxTotalLines == 2

(* ------------------------ code points used ----------------------------- *)
TAB == 9
SP == 32
HASH == 35
DIGIT1 == 49
UPPER_K == 75
LOWER_A == 97
LOWER_K == 107
LOWER_N == 110
LOWER_X == 120
\* U+3005 ideographic iteration mark
ITER_MARK == 12293
\* U+304B hiragana KA, U+30AB katakana KA
HIRA_KA == 12363
KATA_KA == 12459
\* U+3094 hiragana VU, U+30F4 katakana VU
HIRA_VU == 12436
KATA_VU == 12532
\* U+6F22 a CJK unified ideograph
KANJI == 28450

(* ------------------------ string helpers ------------------------------- *)
\* str.isspace() / the regex class \s on one code point
IsSpace(c) ==
    \/ c \in 9..13
    \/ c \in 28..32
    \/ c \in {133, 160, 5760, 8232, 8233, 8239, 8287, 12288}
    \/ c \in 8192..8202

RECURSIVE LStrip(_)
LStrip(s) ==
    IF s = <<>> THEN <<>>
    ELSE IF IsSpace(Head(s)) THEN LStrip(Tail(s)) ELSE s

RECURSIVE RStrip(_)
RStrip(s) ==
    IF s = <<>> THEN <<>>
    ELSE IF IsSpace(s[Len(s)]) THEN RStrip(SubSeq(s, 1, Len(s) - 1)) ELSE s

\* str.strip()
Strip(s) == RStrip(LStrip(s))

\* str.split("\t"): always at least one field
RECURSIVE SplitTab(_)
SplitTab(s) ==
    IF \A i \in 1..Len(s) : s[i] # TAB THEN <<s>>
    ELSE LET i == CHOOSE k \in 1..Len(s) :
                      s[k] = TAB /\ \A j \in 1..(k - 1) : s[j] # TAB
         IN  <<SubSeq(s, 1, i - 1)>> \o SplitTab(SubSeq(s, i + 1, Len(s)))

\* "\t".join(fields)
RECURSIVE JoinTab(_)
JoinTab(fields) ==
    IF fields = <<>> THEN <<>>
    ELSE IF Len(fields) = 1 THEN fields[1]
    ELSE fields[1] \o <<TAB>> \o JoinTab(Tail(fields))

\* str.lower() on the code points the model uses (ASCII letters)
Lower(s) == [i \in 1..Len(s) |-> IF s[i] \in 65..90 THEN s[i] + 32 ELSE s[i]]

\* the character class [a-z0-9]
IsLowerAlnum(c) == c \in 97..122 \/ c \in 48..57

\* re.sub(r'\s+', '', s)
RECURSIVE RemoveSpace(_)
RemoveSpace(s) ==
    IF s = <<>> THEN <<>>
    ELSE IF IsSpace(Head(s)) THEN RemoveSpace(Tail(s))
    ELSE <<Head(s)>> \o RemoveSpace(Tail(s))

\* mutant: the final character filter is left out
RemoveNonAlnum_KeepsAll(s) == s

\* re.sub(r'[^a-z0-9]', '', s)
RECURSIVE RemoveNonAlnum(_)
RemoveNonAlnum(s) ==
    IF s = <<>> THEN <<>>
    ELSE IF IsLowerAlnum(Head(s)) THEN <<Head(s)>> \o RemoveNonAlnum(Tail(s))
    ELSE RemoveNonAlnum(Tail(s))

\* lexicographic order of str by code point
RECURSIVE StrLess(_, _)
StrLess(a, b) ==
    IF b = <<>> THEN FALSE
    ELSE IF a = <<>> THEN TRUE
    ELSE IF Head(a) # Head(b) THEN Head(a) < Head(b)
    ELSE StrLess(Tail(a), Tail(b))

(* ------------------------ Script Classifier ---------------------------- *)
\* mutant: the validation pattern admits letters only
is_ascii_romaji_LettersOnly(s) ==
    s # <<>> /\ \A i \in 1..Len(s) : s[i] \in 97..122

\* ASCII_RE = ^[a-z0-9]+$ with fullmatch
is_ascii_romaji(s) == s # <<>> /\ \A i \in 1..Len(s) : IsLowerAlnum(s[i])

\* mutant: the kana range starts at the CJK symbols block, U+3000
JP_CHAR_FromCjkSymbols(c) == c \in 12288..12543 \/ c \in 19968..40959

\* JP_CHAR_RE = [U+3040-U+30FF U+4E00-U+9FFF]
JP_CHAR(c) == c \in 12352..12543 \/ c \in 19968..40959

\* mutant: every non-empty word passes the script test
has_japanese_NonEmpty(word) == word # <<>>

has_japanese(word) == \E i \in 1..Len(word) : JP_CHAR(word[i])

(* ----------------------- Transliteration Engine ------------------------ *)
\* jaconv.hira2kata: hiragana U+3041..U+3096 to katakana, U+3094 left alone
hira2kata(s) ==
    [i \in 1..Len(s) |->
        IF s[i] \in 12353..12438 /\ s[i] # HIRA_VU THEN s[i] + 96 ELSE s[i]]

\* str.replace(U+3094, U+30F4)
ReplaceVu(s) == [i \in 1..Len(s) |-> IF s[i] = HIRA_VU THEN KATA_VU ELSE s[i]]

\* what jaconv.kana2alphabet may return (external library)
Kana2AlphabetResults ==
    { <<KATA_KA>>, <<UPPER_K, SP, LOWER_A, 45, DIGIT1>> }

\* what pykakasi_convert may do (external library): raise, or return a string
PyOutcomes ==
    { [raises |-> TRUE, value |-> <<>>] } \cup
    { [raises |-> FALSE, value |-> v] :
        v \in { <<ITER_MARK>>, <<UPPER_K, LOWER_A, SP, LOWER_N>> } }

\* mutant: an exception of the secondary backend is not caught
EngineRun_NoCatch(reading, has, alphabet, py) ==
    IF reading = <<>>
    THEN [ret |-> <<>>, path |-> "empty", r_kata |-> <<>>,
          romaji_clean |-> <<>>, consulted |-> FALSE, raised |-> FALSE,
          r_py_clean |-> <<>>]
    ELSE
      LET r_kata == ReplaceVu(hira2kata(reading))
          romaji_clean == RemoveNonAlnum(RemoveSpace(Lower(alphabet)))
          r_py_clean == RemoveNonAlnum(Lower(RemoveSpace(py.value)))
      IN  IF is_ascii_romaji(romaji_clean)
          THEN [ret |-> romaji_clean, path |-> "primary", r_kata |-> r_kata,
                romaji_clean |-> romaji_clean, consulted |-> FALSE,
                raised |-> FALSE, r_py_clean |-> <<>>]
          ELSE IF has /\ py.raises
          THEN [ret |-> <<>>, path |-> "exception", r_kata |-> r_kata,
                romaji_clean |-> romaji_clean, consulted |-> TRUE,
                raised |-> TRUE, r_py_clean |-> <<>>]
          ELSE IF has /\ r_py_clean # <<>>
          THEN [ret |-> r_py_clean, path |-> "secondary", r_kata |-> r_kata,
                romaji_clean |-> romaji_clean, consulted |-> TRUE,
                raised |-> FALSE, r_py_clean |-> r_py_clean]
          ELSE [ret |-> romaji_clean, path |-> "fallthrough",
                r_kata |-> r_kata, romaji_clean |-> romaji_clean,
                consulted |-> has, raised |-> FALSE,
                r_py_clean |-> <<>>]

\* One run of convert_reading_to_romaji.  has is HAS_PYKAKASI, alphabet is
\* the string jaconv.kana2alphabet returned, py the outcome of
\* pykakasi_convert.  ret is the returned string, path the return statement
\* taken; values never computed on the path taken are <<>>.
EngineRun(reading, has, alphabet, py) ==
    IF reading = <<>>
    THEN [ret |-> <<>>, path |-> "empty", r_kata |-> <<>>,
          romaji_clean |-> <<>>, consulted |-> FALSE, raised |-> FALSE,
          r_py_clean |-> <<>>]
    ELSE
      LET r_kata == ReplaceVu(hira2kata(reading))
          romaji == RemoveSpace(Lower(alphabet))
          romaji_clean == RemoveNonAlnum(romaji)
          r_py == Lower(RemoveSpace(py.value))
          r_py_clean == RemoveNonAlnum(r_py)
      IN  IF is_ascii_romaji(romaji_clean)
          THEN [ret |-> romaji_clean, path |-> "primary", r_kata |-> r_kata,
                romaji_clean |-> romaji_clean, consulted |-> FALSE,
                raised |-> FALSE, r_py_clean |-> <<>>]
          ELSE IF has /\ ~py.raises /\ r_py_clean # <<>>
          THEN [ret |-> r_py_clean, path |-> "secondary", r_kata |-> r_kata,
                romaji_clean |-> romaji_clean, consulted |-> TRUE,
                raised |-> FALSE, r_py_clean |-> r_py_clean]
          ELSE [ret |-> romaji_clean, path |-> "fallthrough",
                r_kata |-> r_kata, romaji_clean |-> romaji_clean,
                consulted |-> has, raised |-> has /\ py.raises,
                r_py_clean |-> IF has /\ ~py.raises THEN r_py_clean ELSE <<>>]

convert_reading_to_romaji(reading, has, alphabet, py) ==
    EngineRun(reading, has, alphabet, py).ret

(* --------------------------- input space ------------------------------- *)
\* file paths matching the pattern: two-digit names, compared as strings
PathOf(i) == <<48 + (i \div 10), 48 + (i % 10)>>
Paths == { PathOf(i) : i \in 1..MaxFiles }

\* what glob.glob may return: the matching paths in any order
GlobResults ==
    UNION { { g \in [1..n -> Paths] : \A i, j \in 1..n : i # j => g[i] # g[j] }
            : n \in 0..MaxFiles }

READING == <<HIRA_KA>>
FILLER == <<LOWER_X>>
WordFields == { <<>>, <<SP, HIRA_KA, SP>>, <<ITER_MARK>>, <<LOWER_X>> }

\* records as tuples of raw fields: no field, a blank, a comment, one to
\* four fields, five fields, six fields with a blank headword, and records
\* whose reading field is empty
FieldSeqs ==
    { <<>>, << <<SP>> >>,
      << <<HASH>>, FILLER, FILLER, FILLER, <<KANJI>> >>,
      <<READING>>,
      <<READING, FILLER>>,
      <<READING, FILLER, FILLER>>,
      <<READING, FILLER, FILLER, FILLER>>,
      <<READING, FILLER, FILLER, FILLER, <<SP>>, FILLER>>,
      << <<>>, FILLER, FILLER, FILLER, <<ITER_MARK>> >>,
      << <<>>, FILLER, FILLER, FILLER, <<ITER_MARK>>, <<KANJI>> >> } \cup
    { <<READING, FILLER, FILLER, FILLER, w>> : w \in WordFields }

\* the physical lines a file may hold (newline already removed by strip)
Lines == { JoinTab(f) : f \in FieldSeqs }

\* readings the engine is tried on directly
ReadingChars == { SP, HIRA_KA, HIRA_VU, KANJI, ITER_MARK, UPPER_K, DIGIT1 }
Readings ==
    { <<>> } \cup { <<c>> : c \in ReadingChars } \cup
    { <<c, d>> : c \in ReadingChars, d \in ReadingChars }

(* ------------------------------ state ---------------------------------- *)
VARIABLES
    pc,             \* position in mozc_to_rime, or the exception that ended it
    HAS_PYKAKASI,   \* module global set at import
    files,          \* sorted(glob.glob(...))
    fp,             \* index in files of the file being read
    lineno,         \* lines read from the current file
    line,           \* the physical line read by the latest iteration
    reading,        \* locals of the latest iteration; <<>> when the
    word,           \*   iteration ended before assigning them
    romaji,
    branch,         \* how the latest iteration ended
    engine,         \* the engine run of the latest iteration
    results,        \* accepted entries <<word, romaji>>
    skipped,        \* skipped entries <<word, reading, reason>>
    stats,          \* the four counters
    origins,        \* history: <<path, line number>> of each accepted entry
    output_file,    \* the primary output file
    skipped_tsv,    \* the diagnostic file
    prior           \* history: the two files as they were before the run

vars == <<pc, HAS_PYKAKASI, files, fp, lineno, line, reading, word, romaji,
          branch, engine, results, skipped, stats, origins, output_file,
          skipped_tsv, prior>>

\* the reason string of a skipped entry (src line 93):
\* U+65E0 U+6CD5 U+751F U+6210 "ASCII romaji"
REASON ==
    <<26080, 27861, 29983, 25104, 65, 83, 67, 73, 73, 32,
      114, 111, 109, 97, 106, 105>>

\* the first field count that is not skipped by the length test (src line 78)
MIN_FIELDS == 2
\* index of the headword field (src line 81)
WORD_INDEX == 4

NoFile == [exists |-> FALSE, content |-> <<>>]
OldFile == [exists |-> TRUE, content |-> << <<LOWER_X, 10>> >>]

\* the header block, abridged to its comment banner line
HeaderLines == << <<HASH, SP, 82, 10>> >>

NoEngine ==
    [ret |-> <<>>, path |-> "none", r_kata |-> <<>>, romaji_clean |-> <<>>,
     consulted |-> FALSE, raised |-> FALSE, r_py_clean |-> <<>>]

ZeroStats ==
    [processed_lines |-> 0, converted |-> 0, skipped |-> 0,
     filtered_nonjp |-> 0]

\* mutant: the line counter is not incremented
CountLine_Forgets(st) == st

\* line 73: stats["processed_lines"] += 1
CountLine(st) == [st EXCEPT !.processed_lines = @ + 1]

\* line 87: stats["filtered_nonjp"] += 1
CountFiltered(st) == [st EXCEPT !.filtered_nonjp = @ + 1]

\* mutant: the skipped counter is not incremented
CountSkipped_Forgets(st) == st

\* line 92: stats["skipped"] += 1
CountSkipped(st) == [st EXCEPT !.skipped = @ + 1]

\* line 97: stats["converted"] += 1
CountConverted(st) == [st EXCEPT !.converted = @ + 1]

\* mutant: the glob result is used unsorted
SortedPaths_Unsorted(g) == g

\* sorted(): the ordered arrangement of the paths of g
SortedPaths(g) ==
    CHOOSE f \in [1..Len(g) -> {g[i] : i \in 1..Len(g)}] :
        /\ \A i \in 1..Len(g) : \E j \in 1..Len(g) : f[j] = g[i]
        /\ \A i, j \in 1..Len(g) : i < j => StrLess(f[i], f[j])

Init ==
    /\ pc = "start"
    /\ HAS_PYKAKASI \in BOOLEAN
    /\ files = <<>>
    /\ fp = 0
    /\ lineno = 0
    /\ line = <<>>
    /\ reading = <<>>
    /\ word = <<>>
    /\ romaji = <<>>
    /\ branch = "none"
    /\ engine = NoEngine
    /\ results = <<>>
    /\ skipped = <<>>
    /\ stats = ZeroStats
    /\ origins = <<>>
    /\ prior \in { [out |-> NoFile, skip |-> NoFile],
                   [out |-> OldFile, skip |-> OldFile] }
    /\ output_file = prior.out
    /\ skipped_tsv = prior.skip

(* ----------------------------- mozc_to_rime ---------------------------- *)
\* mutant: the empty glob result is not rejected
Glob_NoCheck ==
    /\ pc = "start"
    /\ \E g \in GlobResults :
         /\ files' = SortedPaths(g)
         /\ IF g = <<>>
            THEN pc' = "write_output" /\ fp' = 0
            ELSE pc' = "loop" /\ fp' = 1
    /\ UNCHANGED <<HAS_PYKAKASI, lineno, line, reading, word, romaji, branch,
                   engine, results, skipped, stats, origins, output_file,
                   skipped_tsv, prior>>

\* lines 62-68: glob, sort, raise FileNotFoundError when nothing matches
Glob ==
    /\ pc = "start"
    /\ \E g \in GlobResults :
         /\ files' = SortedPaths(g)
         /\ IF g = <<>>
            THEN pc' = "FileNotFoundError" /\ fp' = 0
            ELSE pc' = "loop" /\ fp' = 1
    /\ UNCHANGED <<HAS_PYKAKASI, lineno, line, reading, word, romaji, branch,
                   engine, results, skipped, stats, origins, output_file,
                   skipped_tsv, prior>>

\* an iteration that ends at a continue before the script test
EarlyContinue(ln, how, rd) ==
    /\ branch' = how
    /\ reading' = rd
    /\ word' = <<>>
    /\ romaji' = <<>>
    /\ engine' = NoEngine
    /\ stats' = CountLine(stats)
    /\ UNCHANGED <<pc, results, skipped, origins>>

\* lines 72-97: one iteration of the loop over the lines of files[fp]
Iteration(ln) ==
    LET stripped == Strip(ln)
        parts == SplitTab(stripped)
    IN  /\ line' = ln
        /\ lineno' = lineno + 1
        /\ IF stripped = <<>> \/ Head(stripped) = HASH
           THEN EarlyContinue(ln, "blank_or_comment", <<>>)
           ELSE IF Len(parts) < MIN_FIELDS
           THEN EarlyContinue(ln, "short", <<>>)
           ELSE IF Len(parts) < WORD_INDEX + 1
           THEN \* parts[4] raises IndexError, which nothing catches
                /\ pc' = "IndexError"
                /\ branch' = "IndexError"
                /\ reading' = Strip(parts[1])
                /\ word' = <<>>
                /\ romaji' = <<>>
                /\ engine' = NoEngine
                /\ stats' = CountLine(stats)
                /\ UNCHANGED <<results, skipped, origins>>
           ELSE
             LET rd == Strip(parts[1])
                 wd == Strip(parts[WORD_INDEX + 1])
             IN  IF wd = <<>>
                 THEN EarlyContinue(ln, "no_word", rd)
                 ELSE IF ~has_japanese(wd)
                 THEN /\ branch' = "filtered"
                      /\ reading' = rd
                      /\ word' = wd
                      /\ romaji' = <<>>
                      /\ engine' = NoEngine
                      /\ stats' = CountFiltered(CountLine(stats))
                      /\ UNCHANGED <<pc, results, skipped, origins>>
                 ELSE
                   \E alphabet \in Kana2AlphabetResults, py \in PyOutcomes :
                     LET run == EngineRun(rd, HAS_PYKAKASI, alphabet, py)
                     IN  /\ reading' = rd
                         /\ word' = wd
                         /\ engine' = run
                         /\ romaji' = run.ret
                         /\ IF run.path = "exception"
                            THEN /\ pc' = "Exception"
                                 /\ branch' = "Exception"
                                 /\ stats' = CountLine(stats)
                                 /\ UNCHANGED <<results, skipped, origins>>
                            ELSE IF run.ret = <<>>
                            THEN /\ branch' = "skipped"
                                 /\ stats' = CountSkipped(CountLine(stats))
                                 /\ skipped' =
                                      Append(skipped, <<wd, rd, REASON>>)
                                 /\ UNCHANGED <<pc, results, origins>>
                            ELSE /\ branch' = "converted"
                                 /\ results' = Append(results, <<wd, run.ret>>)
                                 /\ origins' =
                                      Append(origins, <<files[fp], lineno + 1>>)
                                 /\ stats' =
                                      CountConverted(CountLine(stats))
                                 /\ UNCHANGED <<pc, skipped>>

\* the file being read yields one more line
ReadLine ==
    /\ pc = "loop"
    /\ stats.processed_lines < MaxTotalLines
    /\ \E ln \in Lines : Iteration(ln \o <<10>>)
    /\ UNCHANGED <<HAS_PYKAKASI, files, fp, output_file, skipped_tsv, prior>>

\* the file being read is exhausted: next file, or leave the loop
EndOfFile ==
    /\ pc = "loop"
    /\ IF fp < Len(files)
       THEN fp' = fp + 1 /\ pc' = "loop"
       ELSE fp' = fp /\ pc' = "write_output"
    /\ lineno' = 0
    /\ UNCHANGED <<HAS_PYKAKASI, files, line, reading, word, romaji, branch,
                   engine, results, skipped, stats, origins, output_file,
                   skipped_tsv, prior>>

\* f"{word}\t{romaji}\n"
EntryLine(e) == e[1] \o <<TAB>> \o e[2] \o <<10>>

\* f"{word}\t{reading}\t{reason}\n"
SkippedLine(e) == e[1] \o <<TAB>> \o e[2] \o <<TAB>> \o e[3] \o <<10>>

\* lines 106-109: write the header and the entries to output_file
WriteOutput ==
    /\ pc = "write_output"
    /\ output_file' =
         [exists |-> TRUE,
          content |-> HeaderLines \o
                      [i \in 1..Len(results) |-> EntryLine(results[i])]]
    /\ pc' = "write_skipped"
    /\ UNCHANGED <<HAS_PYKAKASI, files, fp, lineno, line, reading, word,
                   romaji, branch, engine, results, skipped, stats, origins,
                   skipped_tsv, prior>>

\* lines 111-115: write skipped.tsv and return
WriteSkipped ==
    /\ pc = "write_skipped"
    /\ skipped_tsv' =
         [exists |-> TRUE,
          content |-> [i \in 1..Len(skipped) |-> SkippedLine(skipped[i])]]
    /\ pc' = "done"
    /\ UNCHANGED <<HAS_PYKAKASI, files, fp, lineno, line, reading, word,
                   romaji, branch, engine, results, skipped, stats, origins,
                   output_file, prior>>

Next == Glob \/ ReadLine \/ EndOfFile \/ WriteOutput \/ WriteSkipped

Spec == Init /\ [][Next]_vars

(* ---------------- the engine on its own (pure function) ---------------- *)
EngineInit ==
    /\ pc = "engine"
    /\ HAS_PYKAKASI \in BOOLEAN
    /\ reading \in Readings
    /\ files = <<>>
    /\ fp = 0
    /\ lineno = 0
    /\ line = <<>>
    /\ word = <<>>
    /\ romaji = <<>>
    /\ branch = "none"
    /\ engine = NoEngine
    /\ results = <<>>
    /\ skipped = <<>>
    /\ stats = ZeroStats
    /\ origins = <<>>
    /\ prior = [out |-> NoFile, skip |-> NoFile]
    /\ output_file = NoFile
    /\ skipped_tsv = NoFile

\* a call convert_reading_to_romaji(reading)
EngineCall ==
    /\ pc = "engine"
    /\ \E alphabet \in Kana2AlphabetResults, py \in PyOutcomes :
         /\ engine' = EngineRun(reading, HAS_PYKAKASI, alphabet, py)
         /\ romaji' =
              convert_reading_to_romaji(reading, HAS_PYKAKASI, alphabet, py)
    /\ pc' = "engine_returned"
    /\ UNCHANGED <<HAS_PYKAKASI, files, fp, lineno, line, reading, word,
                   branch, results, skipped, stats, origins, output_file,
                   skipped_tsv, prior>>

EngineNext == EngineCall

EngineSpec == EngineInit /\ [][EngineNext]_vars

(* ------------------------------ properties ---------------------------- *)
\* the step is one loop iteration (a physical line was read)
LineStep == lineno' = lineno + 1

\* the fields of the trimmed line l
TrimmedParts(l) == SplitTab(Strip(l))

\* c lies in one of the two qualifying script ranges
Qualifying(c) == c \in 12352..12543 \/ c \in 19968..40959
Qualifies(w) == \E i \in 1..Len(w) : Qualifying(w[i])

\* C1: a line that after trimming is non-blank, is not a comment and has
\* fewer than 5 tab fields is skipped: processed_lines goes up by one, no
\* other counter changes, nothing is appended, and the run goes on.
C1_ShortLineSkipped ==
    [][ ( /\ LineStep
          /\ Strip(line') # <<>>
          /\ Head(Strip(line')) # HASH
          /\ Len(TrimmedParts(line')) < 5 )
        => ( /\ pc' = "loop"
             /\ stats' = [stats EXCEPT !.processed_lines = @ + 1]
             /\ results' = results
             /\ skipped' = skipped ) ]_vars

\* C2: whatever the reading and whether or not the secondary backend is
\* available, the string the engine returns has only characters of [a-z0-9].
C2_KeyIsLowerAlnum ==
    /\ \A i \in 1..Len(engine.ret) :
         engine.ret[i] \in 97..122 \/ engine.ret[i] \in 48..57
    /\ pc = "engine_returned" => romaji = engine.ret

C2_Witness ==
    /\ pc = "engine_returned"
    /\ engine.path = "secondary"
    /\ engine.ret = <<LOWER_K, LOWER_A, LOWER_N>>
    /\ reading = <<HIRA_KA, HIRA_VU>>

\* C3: converted + skipped + filtered_nonjp never exceeds processed_lines,
\* and no counter ever decreases.
C3_CountersBounded ==
    /\ [](stats.converted + stats.skipped + stats.filtered_nonjp
            <= stats.processed_lines)
    /\ [][ /\ stats'.processed_lines >= stats.processed_lines
           /\ stats'.converted >= stats.converted
           /\ stats'.skipped >= stats.skipped
           /\ stats'.filtered_nonjp >= stats.filtered_nonjp ]_vars

C3_Witness ==
    /\ stats.processed_lines = 2
    /\ stats.converted = 1
    /\ stats.skipped = 0
    /\ stats.filtered_nonjp = 0
    /\ branch = "blank_or_comment"

\* C4: one line appends at most one element to results and skipped taken
\* together; a line whose word has no qualifying character bumps only
\* filtered_nonjp among the outcome counters and appends nothing.
C4_AtMostOneAppend ==
    [][ LineStep =>
        /\ \/ results' = results /\ skipped' = skipped
           \/ \E e \in {<<word', romaji'>>} :
                results' = Append(results, e) /\ skipped' = skipped
           \/ \E e \in {<<word', reading', REASON>>} :
                skipped' = Append(skipped, e) /\ results' = results
        /\ (word' # <<>> /\ ~Qualifies(word')) =>
             /\ stats'.filtered_nonjp = stats.filtered_nonjp + 1
             /\ stats'.converted = stats.converted
             /\ stats'.skipped = stats.skipped
             /\ results' = results
             /\ skipped' = skipped ]_vars

C4_Witness ==
    /\ branch = "filtered"
    /\ word = <<LOWER_X>>
    /\ stats.filtered_nonjp = 1
    /\ results = <<>>
    /\ skipped = <<>>

\* C5: when no file matches, the run ends with FileNotFoundError before any
\* line is processed, and both output files are as they were before the run.
C5_NotFoundTouchesNothing ==
    /\ (pc # "start" /\ files = <<>>) => pc = "FileNotFoundError"
    /\ pc = "FileNotFoundError" =>
         /\ files = <<>>
         /\ stats = ZeroStats
         /\ lineno = 0
         /\ output_file = prior.out
         /\ skipped_tsv = prior.skip

C5_Witness ==
    /\ pc = "FileNotFoundError"
    /\ prior.out = OldFile
    /\ output_file = OldFile
    /\ skipped_tsv = OldFile

\* C6: when the secondary backend raises, the exception is caught in the
\* engine, the run does not abort, and the engine returns the clean
\* candidate of the primary path; when that is empty the line becomes a
\* skipped entry.
C6_BackendErrorSwallowed ==
    engine.raised =>
        /\ pc \in {"loop", "write_output", "write_skipped", "done"}
        /\ engine.consulted
        /\ engine.ret = engine.romaji_clean
        /\ romaji = engine.ret
        /\ romaji = <<>> =>
             /\ branch = "skipped"
             /\ skipped # <<>>
             /\ skipped[Len(skipped)] = <<word, reading, REASON>>

C6_Witness ==
    /\ engine.raised
    /\ branch = "skipped"
    /\ pc = "loop"
    /\ stats.skipped = 1

\* <<path, line number>> a precedes b in aggregator order
Precedes(a, b) == StrLess(a[1], b[1]) \/ (a[1] = b[1] /\ a[2] < b[2])

\* the lines of the primary output file after the header
EntryLinesWritten ==
    SubSeq(output_file.content, Len(HeaderLines) + 1,
           Len(output_file.content))

\* C7: the entry lines of the output file are the accepted entries in
\* aggregator order (by file path, then by line), none dropped, duplicated
\* or reordered, so their number is converted.
C7_OutputInAggregatorOrder ==
    /\ Len(origins) = Len(results)
    /\ \A i, j \in 1..Len(origins) : i < j => Precedes(origins[i], origins[j])
    /\ pc \in {"write_skipped", "done"} =>
         /\ Len(EntryLinesWritten) = stats.converted
         /\ Len(EntryLinesWritten) = Len(results)
         /\ \A i \in 1..Len(results) :
              EntryLinesWritten[i] =
                results[i][1] \o <<TAB>> \o results[i][2] \o <<10>>

C7_Witness ==
    /\ pc = "done"
    /\ Len(results) = 2
    /\ origins[1][1] # origins[2][1]
    /\ results[1][2] # results[2][2]
    /\ Len(output_file.content) = 3

\* the fields of the physical line l as a record (newline removed)
RecordFields(l) ==
    SplitTab(IF l # <<>> /\ l[Len(l)] = 10 THEN SubSeq(l, 1, Len(l) - 1)
             ELSE l)

C9_EntriesWellFormed ==
    /\ \A i \in 1..Len(results) :
         Qualifies(results[i][1]) /\ results[i][2] # <<>>
    /\ \A i \in 1..Len(skipped) : Qualifies(skipped[i][1])
    /\ stats.converted = Len(results)
    /\ stats.skipped = Len(skipped)
    /\ branch = "skipped" =>
         /\ engine.path \in {"empty", "fallthrough"}
         /\ engine.ret = <<>>
         /\ skipped[Len(skipped)][1] = word
         /\ skipped[Len(skipped)][2] = reading
    /\ branch = "converted" =>
         /\ engine.path \in {"primary", "secondary"}
         /\ results[Len(results)] = <<word, engine.ret>>

C9_Witness ==
    /\ Len(results) = 1
    /\ Len(skipped) = 1
    /\ branch = "skipped"
    /\ engine.path = "fallthrough"

\* C10: the secondary backend is consulted only when the clean candidate of
\* the primary path is empty, so the final return is always the empty
\* string; the engine returns a non-empty key exactly when the clean
\* candidate is non-empty, or the backend is available, does not raise and
\* gives a non-empty cleaned result.
C10_BackendOnlyOnEmptyCandidate ==
    /\ engine.consulted => engine.romaji_clean = <<>>
    /\ engine.romaji_clean # <<>> => engine.path = "primary"
    /\ engine.path = "fallthrough" => engine.ret = <<>>
    /\ engine.ret # <<>> <=>
         \/ engine.romaji_clean # <<>>
         \/ /\ HAS_PYKAKASI
            /\ engine.consulted
            /\ ~engine.raised
            /\ engine.r_py_clean # <<>>

C10_Witness ==
    /\ pc = "engine_returned"
    /\ engine.path = "fallthrough"
    /\ engine.consulted
    /\ ~engine.raised
    /\ reading = <<KANJI>>

====
